---- MODULE Spec2Model ----
(***************************************************************************)
(* Model of the GPU resource arbiter of nit.vibecoding.by                  *)
(* (app/lib/modules/llm/resource-manager.ts): the promise-chain AsyncMutex *)
(* and the ResourceManager operations that run inside it, against a        *)
(* simulated pair of backends (Ollama, LM Studio); the chat route          *)
(* (app/routes/api.chat.ts) that drives the arbiter and the generation     *)
(* segments of one request; and the output budget of streamText            *)
(* (app/lib/.server/llm/stream-text.ts).                                   *)
(*                                                                         *)
(* Every await of the source is a step boundary: between two steps of one  *)
(* critical section other callers may submit and resetTracking() may run.  *)
(* Each awaited network call either gets an answer or fails (unreachable   *)
(* server, timeout); an answered unload or load request takes effect on    *)
(* the backend or leaves its resident set as it was.                       *)
(***************************************************************************)
EXTENDS Integers, FiniteSets, Sequences, TLC

\* ---------------------------------------------------------------- bounds
\* number of acquire() calls submitted in one run
MaxCalls == 2
\* generation calls one request may issue before the model stops following it
MaxGen == 3
\* messages in the list handed to one budget computation
MaxMsgs == 5
\* polls of one unload confirmation wait before its 15 s deadline passes
MaxPolls == 2
\* polls of one load confirmation wait before its 30 s deadline passes
MaxLoadPolls == 2

\* ------------------------------------------------------------- constants
None == "none"
Ollama == "Ollama"
LMStudio == "LMStudio"
Backends == {Ollama, LMStudio}

\* model identifiers a backend can hold, and one identifier no backend knows
Models == {"m1", "m2"}
UnknownModel == "mx"
ModelArgs == Models \cup {UnknownModel}

\* what LM Studio may hold when the process starts (Ollama starts empty)
InitialResidents == {{}, {"m1"}}

\* the LM Studio inventory (data.models): every entry is of type 'llm'
LMSInventory == Models
IsLLM(m) == m \in LMSInventory

CallIds == 1 .. MaxCalls
PrepareOps == {"prepareOllama", "prepareLMStudio"}
UnloadOps == {"unloadAll", "forceUnloadAll"}
Ops == PrepareOps \cup UnloadOps

\* the failure taxonomy of prepare
OK == "ok"
BackendUnavailable == "BackendUnavailable"
ModelNotFound == "ModelNotFound"
PrepareFailed == "PrepareFailed"
Failures == {BackendUnavailable, ModelNotFound, PrepareFailed}

VARIABLES
  chain,           \* AsyncMutex._chain: the call whose detached promise it is (0: Promise.resolve())
  locked,          \* AsyncMutex._locked
  queueSize,       \* AsyncMutex._queueSize
  activeProvider,  \* ResourceManager._activeProvider
  activeModel,     \* ResourceManager._activeModel
  calls,           \* one record per acquire(): task, position in its body, locals, outcome
  resident,        \* backend -> models in VRAM
  clean,           \* no unload listing, request or confirmation wait has failed or timed out so far
  session,         \* chatAction: the locals of the request being served
  budget           \* streamText: the inputs and locals of one budget computation

\* the arbiter and its backends
avars == <<chain, locked, queueSize, activeProvider, activeModel, calls, resident, clean>>
\* the chat route and streamText
svars == <<session, budget>>
vars == <<chain, locked, queueSize, activeProvider, activeModel, calls, resident, clean,
          session, budget>>

\* no confirmation wait has returned to the block the task is in
NoWait == <<None, None>>

\* a call that has not been submitted
Idle == [op |-> None, arg |-> None, pred |-> 0, pc |-> "idle", err |-> None,
         result |-> "pending", ub |-> None, todo |-> {}, count |-> 0, polls |-> 0,
         loaded |-> FALSE, issued |-> {}, ran |-> {}, waited |-> NoWait,
         freed |-> [b \in {"Ollama", "LMStudio"} |-> 0]]

Submitted(c) == calls[c].pc # "idle"
\* the task body has started and has not yet finished or failed
Executing(c) == calls[c].pc \notin {"idle", "queued", "done", "rejected"}
Started(c) == calls[c].pc \notin {"idle", "queued", "rejected"}
Completed(c) == calls[c].pc = "done"

\* variant: the unload routine is pointed at the target itself
OtherSame(b) == b

\* the competing backend
Other(b) == IF b = Ollama THEN LMStudio ELSE Ollama
TargetOf(o) == IF o = "prepareOllama" THEN Ollama ELSE LMStudio

\* a token count the provider did not report (undefined or NaN)
Missing == -1
\* the usage argument of an onFinish callback: absent, complete, or with
\* only the completion count reported
NoUsage == [present |-> FALSE, completion |-> Missing, prompt |-> Missing, total |-> Missing]
FullUsage == [present |-> TRUE, completion |-> 2, prompt |-> 5, total |-> 7]
PartialUsage == [present |-> TRUE, completion |-> 2, prompt |-> Missing, total |-> Missing]
UsageReports == {NoUsage, FullUsage, PartialUsage}
\* cumulativeUsage = {completionTokens: 0, promptTokens: 0, totalTokens: 0}
ZeroUsage == [completion |-> 0, prompt |-> 0, total |-> 0]

\* chatAction before a request: progressCounter = 1, a fresh SwitchableStream
NoSession ==
  [pc |-> "idle", provider |-> None, model |-> None, marker |-> <<None, None>>,
   text |-> TRUE, optimise |-> FALSE, call |-> 0, failed |-> None,
   otherUp |-> "unknown", fallback |-> 0, counter |-> 1, log |-> <<>>,
   switches |-> 0, gens |-> <<>>, reasons |-> <<>>, usage |-> 0, error |-> None,
   messages |-> <<>>, cumulative |-> ZeroUsage, annotations |-> <<>>,
   reports |-> [u \in UsageReports |-> 0]]

\* streamText not called
NoBudget == [pc |-> "idle"]

Init ==
  /\ session = NoSession
  /\ budget = NoBudget
  /\ chain = 0
  /\ locked = FALSE
  /\ queueSize = 0
  /\ activeProvider = None
  /\ activeModel = None
  /\ calls = [c \in CallIds |-> Idle]
  /\ resident \in {[b \in Backends |-> IF b = LMStudio THEN r ELSE {}] : r \in InitialResidents}
  /\ clean = TRUE

\* ------------------------------------------------------------ AsyncMutex
\* variant: the callback is chained to an already resolved promise
ChainStateEager(c) == "fulfilled"

\* variant: _chain = next, without the two handlers that swallow the outcome
ChainStateNoSwallow(c) ==
  IF c = 0 THEN "fulfilled"
  ELSE IF calls[c].result = "pending" THEN "pending"
  ELSE IF calls[c].result = OK THEN "fulfilled"
  ELSE "rejected"

\* state of the promise `next.then(() => undefined, () => undefined)` of call c
ChainState(c) ==
  IF c = 0 THEN "fulfilled"
  ELSE IF calls[c].result = "pending" THEN "pending"
  ELSE "fulfilled"

\* variant: acquire() never replaces _chain
NextChainStale(c) == chain

\* the promise stored in _chain by acquire() number c
NextChain(c) == c

\* acquire(fn): _queueSize++, chain the task behind _chain, replace _chain
Acquire(c, o, a) ==
  /\ calls[c].pc = "idle"
  /\ \A d \in CallIds : d < c => Submitted(d)
  /\ queueSize' = queueSize + 1
  /\ calls' = [calls EXCEPT ![c] = [Idle EXCEPT !.op = o, !.arg = a, !.pred = chain, !.pc = "queued"]]
  /\ chain' = NextChain(c)
  /\ UNCHANGED <<locked, activeProvider, activeModel, resident, clean>>

\* an acquire() by a caller other than the chat route
Submit(c, o, a) == Acquire(c, o, a) /\ UNCHANGED <<session, budget>>

\* variant: prepareOllama without its already-active check
FirstStepNoSkip(r) ==
  CASE r.op = "prepareOllama" -> [r EXCEPT !.pc = "probe"]
    [] r.op = "prepareLMStudio" ->
         IF activeProvider = LMStudio /\ activeModel = r.arg
         THEN [r EXCEPT !.pc = "fresh"]
         ELSE [r EXCEPT !.pc = "probe"]
    [] r.op = "unloadAll" ->
         IF activeProvider = None
         THEN [r EXCEPT !.pc = "fin", !.err = OK]
         ELSE [r EXCEPT !.pc = "uList", !.ub = Ollama]
    [] OTHER -> [r EXCEPT !.pc = "uList", !.ub = Ollama]

\* first instruction of each task body, run synchronously by the chained callback
FirstStep(r) ==
  CASE r.op = "prepareOllama" ->
         IF activeProvider = Ollama /\ activeModel = r.arg
         THEN [r EXCEPT !.pc = "fin", !.err = OK]
         ELSE [r EXCEPT !.pc = "probe"]
    [] r.op = "prepareLMStudio" ->
         IF activeProvider = LMStudio /\ activeModel = r.arg
         THEN [r EXCEPT !.pc = "fresh"]
         ELSE [r EXCEPT !.pc = "probe"]
    [] r.op = "unloadAll" ->
         IF activeProvider = None
         THEN [r EXCEPT !.pc = "fin", !.err = OK]
         ELSE [r EXCEPT !.pc = "uList", !.ub = Ollama]
    [] OTHER -> [r EXCEPT !.pc = "uList", !.ub = Ollama]

\* the callback of _chain.then: runs once the awaited promise is fulfilled
\* (a rejected promise would skip the callback and reject `next` with its reason)
Start(c) ==
  /\ calls[c].pc = "queued"
  /\ ChainState(calls[c].pred) # "pending"
  /\ IF ChainState(calls[c].pred) = "fulfilled"
     THEN /\ locked' = TRUE
          /\ queueSize' = queueSize - 1
          /\ calls' = [calls EXCEPT ![c] = FirstStep(calls[c])]
     ELSE /\ calls' = [calls EXCEPT ![c] = [@ EXCEPT !.pc = "rejected",
                                                     !.result = calls[calls[c].pred].result]]
          /\ UNCHANGED <<locked, queueSize>>
  /\ UNCHANGED <<chain, activeProvider, activeModel, resident, clean, session, budget>>

\* variant: _locked = false after the await instead of in a finally block
ReleaseNoFinally(c) ==
  /\ calls[c].pc = "fin"
  /\ locked' = (calls[c].err # OK)
  /\ calls' = [calls EXCEPT ![c] = [@ EXCEPT !.pc = "done", !.result = calls[c].err,
                                              !.waited = NoWait]]
  /\ UNCHANGED <<chain, queueSize, activeProvider, activeModel, resident, clean, session, budget>>

\* finally { _locked = false } and settlement of `next` with the task's outcome
Release(c) ==
  /\ calls[c].pc = "fin"
  /\ locked' = FALSE
  /\ calls' = [calls EXCEPT ![c] = [@ EXCEPT !.pc = "done", !.result = calls[c].err,
                                              !.waited = NoWait]]
  /\ UNCHANGED <<chain, queueSize, activeProvider, activeModel, resident, clean, session, budget>>

\* ------------------------------------------------------- ResourceManager
\* variant: the reset also clears the mutex flag
ResetTrackingUnlocks ==
  /\ activeProvider' = None
  /\ activeModel' = None
  /\ locked' = FALSE
  /\ UNCHANGED <<chain, queueSize, calls, resident, clean, session, budget>>

\* resetTracking(): synchronous, does not go through the mutex
ResetTracking ==
  /\ activeProvider' = None
  /\ activeModel' = None
  /\ UNCHANGED <<chain, locked, queueSize, calls, resident, clean, session, budget>>

\* variant: the unreachable branch throws without clearing the tracked pair
ProbeKeepsTracking(c, ok) ==
  /\ calls[c].pc = "probe"
  /\ calls' = [calls EXCEPT ![c] =
       IF ok THEN [@ EXCEPT !.pc = "uList", !.ub = Other(TargetOf(calls[c].op))]
       ELSE [@ EXCEPT !.pc = "fin", !.err = BackendUnavailable]]
  /\ UNCHANGED <<chain, locked, queueSize, activeProvider, activeModel, resident, clean, session, budget>>

\* variant: a reachable target is listed at once, the competing backend is left alone
ProbeSkipsEviction(c, ok) ==
  /\ calls[c].pc = "probe"
  /\ IF ok
     THEN /\ calls' = [calls EXCEPT ![c] = [@ EXCEPT !.pc = "pList"]]
          /\ UNCHANGED <<activeProvider, activeModel>>
     ELSE /\ activeProvider' = None
          /\ activeModel' = None
          /\ calls' = [calls EXCEPT ![c] = [@ EXCEPT !.pc = "fin", !.err = BackendUnavailable]]
  /\ UNCHANGED <<chain, locked, queueSize, resident, clean, session, budget>>

\* variant: the unreachable branch returns instead of throwing
ProbeReturnsOnUnreachable(c, ok) ==
  /\ calls[c].pc = "probe"
  /\ IF ok
     THEN /\ calls' = [calls EXCEPT ![c] = [@ EXCEPT !.pc = "uList", !.ub = Other(TargetOf(calls[c].op))]]
          /\ UNCHANGED <<activeProvider, activeModel>>
     ELSE /\ activeProvider' = None
          /\ activeModel' = None
          /\ calls' = [calls EXCEPT ![c] = [@ EXCEPT !.pc = "fin", !.err = OK]]
  /\ UNCHANGED <<chain, locked, queueSize, resident, clean, session, budget>>

\* reachability probe of the target (isOllamaReachable / isLMStudioReachable:
\* any failure counts as unreachable); when unreachable clear tracking and throw
Probe(c, ok) ==
  /\ calls[c].pc = "probe"
  /\ IF ok
     THEN /\ calls' = [calls EXCEPT ![c] = [@ EXCEPT !.pc = "uList", !.ub = Other(TargetOf(calls[c].op))]]
          /\ UNCHANGED <<activeProvider, activeModel>>
     ELSE /\ activeProvider' = None
          /\ activeModel' = None
          /\ calls' = [calls EXCEPT ![c] = [@ EXCEPT !.pc = "fin", !.err = BackendUnavailable]]
  /\ UNCHANGED <<chain, locked, queueSize, resident, clean, session, budget>>

\* models a listing of backend b counts as loaded, other than keep
\* (LM Studio: type 'llm' with a loaded instance; Ollama: every /api/ps entry)
StillLoaded(b, keep) ==
  {m \in resident[b] : (b = LMStudio => IsLLM(m)) /\ m # keep}

\* the routine's `return count`: unloadAll and forceUnloadAll keep it
\* (ollamaFreed, lmsFreed), prepare discards it
Returned(r) ==
  IF r.op \in UnloadOps THEN [r EXCEPT !.freed = [@ EXCEPT ![r.ub] = r.count]] ELSE r

\* variant: unloadAll and forceUnloadAll unload LM Studio through a second
\* acquire(), which waits behind the task that made it
AfterUnloadNested(r) ==
  IF r.op \in PrepareOps
  THEN [Returned(r) EXCEPT !.pc = "pList", !.ub = None, !.todo = {}, !.count = 0, !.polls = 0]
  ELSE IF r.ub = Ollama
  THEN [Returned(r) EXCEPT !.pc = "nested", !.ub = LMStudio, !.todo = {}, !.count = 0, !.polls = 0]
  ELSE [Returned(r) EXCEPT !.pc = "fin", !.err = OK, !.ub = None, !.todo = {}, !.count = 0, !.polls = 0]

\* where a task continues when _unloadAllOllama / _unloadAllLMStudio returns
AfterUnload(r) ==
  IF r.op \in PrepareOps
  THEN [Returned(r) EXCEPT !.pc = "pList", !.ub = None, !.todo = {}, !.count = 0, !.polls = 0]
  ELSE IF r.ub = Ollama
  THEN [Returned(r) EXCEPT !.pc = "uList", !.ub = LMStudio, !.todo = {}, !.count = 0, !.polls = 0]
  ELSE [Returned(r) EXCEPT !.pc = "fin", !.err = OK, !.ub = None, !.todo = {}, !.count = 0, !.polls = 0]

\* unloadAll / forceUnloadAll clear the tracked pair after the second routine
ClearsTracking(r) == r.op \in UnloadOps /\ r.ub = LMStudio

\* variant: the provider is cleared, the model is left in place
TrackAfterUnloadProviderOnly(r) ==
  IF ClearsTracking(r)
  THEN activeProvider' = None /\ UNCHANGED activeModel
  ELSE UNCHANGED <<activeProvider, activeModel>>

\* effect on the tracked pair of the routine returning to task r
TrackAfterUnload(r) ==
  IF ClearsTracking(r)
  THEN activeProvider' = None /\ activeModel' = None
  ELSE UNCHANGED <<activeProvider, activeModel>>

\* variant: the routine has no try/catch, a failed fetch rejects the task
CaughtRethrown(r) ==
  [r EXCEPT !.pc = "fin", !.err = PrepareFailed, !.todo = {}, !.count = 0, !.polls = 0]

\* catch { debug('server not reachable') } followed by `return count`
Caught(r) == AfterUnload(r)

\* _unloadAllOllama / _unloadAllLMStudio: the listing that opens the routine
UnloadList(c, ok) ==
  LET r == [calls[c] EXCEPT !.ran = @ \cup {calls[c].ub}, !.waited = NoWait]
      b == r.ub
  IN /\ r.pc = "uList"
     /\ IF ~ ok
        THEN /\ calls' = [calls EXCEPT ![c] = Caught(r)]
             /\ TrackAfterUnload(r)
             /\ clean' = FALSE
        ELSE IF StillLoaded(b, None) = {}
        THEN /\ calls' = [calls EXCEPT ![c] = AfterUnload(r)]
             /\ TrackAfterUnload(r)
             /\ UNCHANGED clean
        ELSE /\ calls' = [calls EXCEPT ![c] = [r EXCEPT !.pc = "uReq", !.todo = StillLoaded(b, None)]]
             /\ UNCHANGED <<activeProvider, activeModel, clean>>
     /\ UNCHANGED <<chain, locked, queueSize, resident, session, budget>>

\* the backend's handling of an unload request for m that it answered:
\* the model leaves VRAM (eff) or stays
Unloaded(b, m, eff) == IF eff THEN [resident EXCEPT ![b] = @ \ {m}] ELSE resident

\* one iteration of the routine's loop: the unload request for one listed model
\* (Ollama: generate with keep_alive 0; LM Studio: models/unload of the instance)
UnloadRequest(c, ok) ==
  LET r == calls[c]
      b == r.ub
  IN /\ r.pc = "uReq"
     /\ \E m \in r.todo :
          LET r1 == [r EXCEPT !.issued = @ \cup {<<b, "unload">>}]
          IN IF ~ ok
             THEN /\ calls' = [calls EXCEPT ![c] = Caught(r1)]
                  /\ TrackAfterUnload(r1)
                  /\ clean' = FALSE
                  /\ UNCHANGED resident
             ELSE /\ \E eff \in BOOLEAN : resident' = Unloaded(b, m, eff)
                  /\ calls' = [calls EXCEPT ![c] =
                       [r1 EXCEPT !.todo = @ \ {m}, !.count = @ + 1,
                                  !.pc = IF r.todo = {m} THEN "uWait" ELSE "uReq"]]
                  /\ UNCHANGED <<activeProvider, activeModel, clean>>
     /\ UNCHANGED <<chain, locked, queueSize, session, budget>>

\* what one pass of the wait loop finds: the deadline has passed, the poll
\* failed, the poll lists nothing (but the kept model), or models are still listed
WaitCause(polls, ok, still) ==
  IF polls >= MaxPolls THEN "deadline"
  ELSE IF ~ ok THEN "failed"
  ELSE IF still = {} THEN "empty"
  ELSE "still"

\* variant: a failed poll is retried after the sleep
WaitOutcomeRetries(cause) ==
  CASE cause = "deadline" -> "timeout"
    [] cause = "empty" -> "released"
    [] OTHER -> "again"

\* _waitForOllamaUnload / _waitForLMStudioUnload: return false after the
\* loop, return true from the catch block and on an empty list, else sleep
\* and poll again
WaitOutcome(cause) ==
  CASE cause = "deadline" -> "timeout"
    [] cause = "failed" -> "released"
    [] cause = "empty" -> "released"
    [] OTHER -> "again"

\* the wait without keepModel, called by the unload routine, which goes on
\* whatever the wait returned
UnloadWait(c, ok) ==
  LET b == calls[c].ub
      cause == WaitCause(calls[c].polls, ok, StillLoaded(b, None))
      r == [calls[c] EXCEPT !.waited = <<cause, WaitOutcome(cause)>>]
  IN /\ calls[c].pc = "uWait"
     /\ IF WaitOutcome(cause) = "again"
        THEN /\ calls' = [calls EXCEPT ![c] = [r EXCEPT !.polls = @ + 1]]
             /\ UNCHANGED <<activeProvider, activeModel, clean>>
        ELSE /\ calls' = [calls EXCEPT ![c] = AfterUnload(r)]
             /\ TrackAfterUnload(r)
             /\ clean' = (clean /\ cause = "empty")
     /\ UNCHANGED <<chain, locked, queueSize, resident, session, budget>>

\* the freshness check could not read the inventory and the cache was trusted
Unverified == <<"unverified", "trusted">>
\* the freshness check read the inventory and did not find the tracked model loaded
Stale == <<"stale", "cleared">>

\* variant: a model the inventory reports as not loaded is trusted as well
FreshTrustsCache(c, ok) ==
  LET r == calls[c]
  IN /\ r.pc = "fresh"
     /\ calls' = [calls EXCEPT ![c] =
          [r EXCEPT !.pc = "fin", !.err = OK, !.waited = IF ok THEN NoWait ELSE Unverified]]
     /\ UNCHANGED <<chain, locked, queueSize, activeProvider, activeModel, resident, clean,
                    session, budget>>

\* prepareLMStudio fast path: verify the cached model against the inventory;
\* a listing that fails is caught and the cache is trusted
Fresh(c, ok) ==
  LET r == calls[c]
  IN /\ r.pc = "fresh"
     /\ IF ~ ok \/ r.arg \in resident[LMStudio]
        THEN /\ calls' = [calls EXCEPT ![c] =
                  [r EXCEPT !.pc = "fin", !.err = OK,
                            !.waited = IF ok THEN NoWait ELSE Unverified]]
             /\ UNCHANGED <<activeProvider, activeModel>>
        ELSE /\ activeProvider' = None
             /\ activeModel' = None
             /\ calls' = [calls EXCEPT ![c] = [r EXCEPT !.pc = "probe", !.waited = Stale]]
     /\ UNCHANGED <<chain, locked, queueSize, resident, clean, session, budget>>

\* prepareOllama: listing of the target backend (an error is logged, then warm-up)
OllamaList(c, ok) ==
  LET r == [calls[c] EXCEPT !.waited = NoWait]
  IN /\ r.pc = "pList"
     /\ r.op = "prepareOllama"
     /\ calls' = [calls EXCEPT ![c] =
          IF ~ ok
          THEN [r EXCEPT !.pc = "load", !.loaded = FALSE]
          ELSE [r EXCEPT !.loaded = r.arg \in resident[Ollama],
                         !.todo = StillLoaded(Ollama, r.arg),
                         !.pc = IF StillLoaded(Ollama, r.arg) = {} THEN "load" ELSE "pReq"]]
     /\ UNCHANGED <<chain, locked, queueSize, activeProvider, activeModel, resident, clean, session, budget>>

\* prepareOllama: unload request for one other model of the target backend
\* (on an error the loop is left; the kept model may not have been seen yet)
OllamaEvict(c, ok) ==
  LET r == calls[c]
  IN /\ r.pc = "pReq"
     /\ r.op = "prepareOllama"
     /\ \E m \in r.todo :
          LET r1 == [r EXCEPT !.issued = @ \cup {<<Ollama, "unload">>}]
          IN IF ~ ok
             THEN /\ \E seen \in {r.loaded, FALSE} :
                       calls' = [calls EXCEPT ![c] =
                         [r1 EXCEPT !.pc = "load", !.loaded = seen, !.todo = {}, !.count = 0]]
                  /\ UNCHANGED resident
             ELSE /\ \E eff \in BOOLEAN : resident' = Unloaded(Ollama, m, eff)
                  /\ calls' = [calls EXCEPT ![c] =
                       [r1 EXCEPT !.todo = @ \ {m}, !.count = @ + 1,
                                  !.pc = IF r.todo = {m} THEN "pWait" ELSE "pReq"]]
     /\ UNCHANGED <<chain, locked, queueSize, activeProvider, activeModel, clean, session, budget>>

\* variant: a wait that timed out makes prepare fail
AfterSwapWaitThrows(r) ==
  IF r.waited[2] = "timeout"
  THEN [r EXCEPT !.pc = "fin", !.err = PrepareFailed, !.todo = {}, !.count = 0, !.polls = 0,
                 !.loaded = FALSE]
  ELSE [r EXCEPT !.pc = "load", !.todo = {}, !.count = 0, !.polls = 0]

\* prepare after the wait for its own backend: freed or not (a warning is
\* logged), it goes on to the load step
AfterSwapWait(r) == [r EXCEPT !.pc = "load", !.todo = {}, !.count = 0, !.polls = 0]

\* the wait with keepModel, called by prepare for the target backend
SwapWait(c, ok) ==
  LET b == TargetOf(calls[c].op)
      cause == WaitCause(calls[c].polls, ok, StillLoaded(b, calls[c].arg))
      r == [calls[c] EXCEPT !.waited = <<cause, WaitOutcome(cause)>>]
  IN /\ calls[c].pc = "pWait"
     /\ calls' = [calls EXCEPT ![c] =
          IF WaitOutcome(cause) = "again"
          THEN [r EXCEPT !.polls = @ + 1]
          ELSE AfterSwapWait(r)]
     /\ UNCHANGED <<chain, locked, queueSize, activeProvider, activeModel, resident, clean, session, budget>>

\* variant: the target is recorded only when the warm-up answered ok
OllamaRecordedIfWarm(r, warm) == IF warm THEN <<Ollama, r.arg>> ELSE <<None, None>>

\* the provider and model prepareOllama records once its warm-up block is over
OllamaRecorded(r, warm) == <<Ollama, r.arg>>

\* variant: the warm-up is sent whether or not the listing showed the model
OllamaLoadAlways(c, warm) ==
  LET r == [calls[c] EXCEPT !.waited = NoWait]
      done == [r EXCEPT !.pc = "fin", !.err = OK, !.loaded = FALSE]
  IN /\ r.pc = "load"
     /\ r.op = "prepareOllama"
     /\ calls' = [calls EXCEPT ![c] = [done EXCEPT !.issued = @ \cup {<<Ollama, "load">>}]]
     /\ resident' = IF warm /\ r.arg \in Models
                    THEN [resident EXCEPT ![Ollama] = @ \cup {r.arg}]
                    ELSE resident
     /\ activeProvider' = OllamaRecorded(r, warm)[1]
     /\ activeModel' = OllamaRecorded(r, warm)[2]
     /\ UNCHANGED <<chain, locked, queueSize, clean, session, budget>>

\* prepareOllama: warm-up of the target unless already loaded, then record it;
\* warm: the warm-up answered ok and the model is in memory
OllamaLoad(c, warm) ==
  LET r == [calls[c] EXCEPT !.waited = NoWait]
      done == [r EXCEPT !.pc = "fin", !.err = OK, !.loaded = FALSE]
  IN /\ r.pc = "load"
     /\ r.op = "prepareOllama"
     /\ IF r.loaded
        THEN /\ warm
             /\ calls' = [calls EXCEPT ![c] = done]
             /\ UNCHANGED resident
        ELSE /\ calls' = [calls EXCEPT ![c] = [done EXCEPT !.issued = @ \cup {<<Ollama, "load">>}]]
             /\ resident' = IF warm /\ r.arg \in Models
                            THEN [resident EXCEPT ![Ollama] = @ \cup {r.arg}]
                            ELSE resident
     /\ activeProvider' = OllamaRecorded(r, warm)[1]
     /\ activeModel' = OllamaRecorded(r, warm)[2]
     /\ UNCHANGED <<chain, locked, queueSize, clean, session, budget>>

\* prepareLMStudio: an error thrown inside the try block, as rethrown by its catch
Fail(r, e) == [r EXCEPT !.pc = "fin", !.err = e, !.todo = {}, !.count = 0, !.polls = 0, !.loaded = FALSE]

\* prepareLMStudio: listing of the target backend (an error is wrapped and thrown)
LMStudioList(c, ok) ==
  LET r == [calls[c] EXCEPT !.waited = NoWait]
  IN /\ r.pc = "pList"
     /\ r.op = "prepareLMStudio"
     /\ calls' = [calls EXCEPT ![c] =
          IF ~ ok
          THEN Fail(r, PrepareFailed)
          ELSE [r EXCEPT !.loaded = r.arg \in StillLoaded(LMStudio, None),
                         !.todo = StillLoaded(LMStudio, r.arg),
                         !.pc = IF StillLoaded(LMStudio, r.arg) = {} THEN "load" ELSE "pReq"]]
     /\ UNCHANGED <<chain, locked, queueSize, activeProvider, activeModel, resident, clean, session, budget>>

\* prepareLMStudio: unload request for one other instance of the target backend
LMStudioEvict(c, ok) ==
  LET r == calls[c]
  IN /\ r.pc = "pReq"
     /\ r.op = "prepareLMStudio"
     /\ \E m \in r.todo :
          LET r1 == [r EXCEPT !.issued = @ \cup {<<LMStudio, "unload">>}]
          IN IF ~ ok
             THEN /\ calls' = [calls EXCEPT ![c] = Fail(r1, PrepareFailed)]
                  /\ UNCHANGED resident
             ELSE /\ \E eff \in BOOLEAN : resident' = Unloaded(LMStudio, m, eff)
                  /\ calls' = [calls EXCEPT ![c] =
                       [r1 EXCEPT !.todo = @ \ {m}, !.count = @ + 1,
                                  !.pc = IF r.todo = {m} THEN "pWait" ELSE "pReq"]]
     /\ UNCHANGED <<chain, locked, queueSize, activeProvider, activeModel, clean, session, budget>>

\* answers of POST /api/v1/models/load: the model is loaded, the request is
\* accepted but the model does not come up, or an error payload
LoadAnswers == {"loaded", "accepted", "error"}

\* prepareLMStudio: load request for the target unless already loaded
LMStudioLoad(c, ok) ==
  LET r == [calls[c] EXCEPT !.waited = NoWait]
      r1 == [r EXCEPT !.issued = @ \cup {<<LMStudio, "load">>}]
  IN /\ r.pc = "load"
     /\ r.op = "prepareLMStudio"
     /\ IF r.loaded
        THEN /\ ok
             /\ calls' = [calls EXCEPT ![c] = [r EXCEPT !.pc = "fin", !.err = OK, !.loaded = FALSE]]
             /\ activeProvider' = LMStudio
             /\ activeModel' = r.arg
             /\ UNCHANGED resident
        ELSE IF r.arg \notin LMSInventory
        THEN /\ ok
             /\ calls' = [calls EXCEPT ![c] = Fail(r, ModelNotFound)]
             /\ UNCHANGED <<activeProvider, activeModel, resident>>
        ELSE IF ~ ok
        THEN /\ calls' = [calls EXCEPT ![c] = Fail(r1, PrepareFailed)]
             /\ UNCHANGED <<activeProvider, activeModel, resident>>
        ELSE /\ \E res \in LoadAnswers :
                  /\ calls' = [calls EXCEPT ![c] =
                       IF res = "error" THEN Fail(r1, PrepareFailed)
                       ELSE [r1 EXCEPT !.pc = "lWait", !.polls = 0]]
                  /\ resident' = IF res = "loaded"
                                 THEN [resident EXCEPT ![LMStudio] = @ \cup {r.arg}]
                                 ELSE resident
             /\ UNCHANGED <<activeProvider, activeModel>>
     /\ UNCHANGED <<chain, locked, queueSize, clean, session, budget>>

\* _waitForLMStudioModel, then record the target or throw 'did not load'
LMStudioLoadWait(c, ok) ==
  LET r == calls[c]
  IN /\ r.pc = "lWait"
     /\ IF r.polls >= MaxLoadPolls
        THEN /\ calls' = [calls EXCEPT ![c] = Fail(r, PrepareFailed)]
             /\ UNCHANGED <<activeProvider, activeModel>>
        ELSE IF ok /\ r.arg \in resident[LMStudio]
        THEN /\ calls' = [calls EXCEPT ![c] = [r EXCEPT !.pc = "fin", !.err = OK, !.polls = 0]]
             /\ activeProvider' = LMStudio
             /\ activeModel' = r.arg
        ELSE /\ calls' = [calls EXCEPT ![c] = [r EXCEPT !.polls = @ + 1]]
             /\ UNCHANGED <<activeProvider, activeModel>>
     /\ UNCHANGED <<chain, locked, queueSize, resident, clean, session, budget>>

\* one step of the task body of call c; ok: the awaited network call answered
Step(c) ==
  \E ok \in BOOLEAN :
    \/ Probe(c, ok)
    \/ Fresh(c, ok)
    \/ UnloadList(c, ok)
    \/ UnloadRequest(c, ok)
    \/ UnloadWait(c, ok)
    \/ OllamaList(c, ok)
    \/ OllamaEvict(c, ok)
    \/ SwapWait(c, ok)
    \/ OllamaLoad(c, ok)
    \/ LMStudioList(c, ok)
    \/ LMStudioEvict(c, ok)
    \/ LMStudioLoad(c, ok)
    \/ LMStudioLoadWait(c, ok)

Next ==
  \/ \E c \in CallIds : Submit(c, "prepareOllama", "m1") \/ Submit(c, "prepareOllama", "m2")
  \/ \E c \in CallIds, a \in ModelArgs : Submit(c, "prepareLMStudio", a)
  \/ \E c \in CallIds, o \in UnloadOps : Submit(c, o, None)
  \/ \E c \in CallIds : Start(c)
  \/ \E c \in CallIds : Release(c)
  \/ \E c \in CallIds : Step(c)
  \/ ResetTracking

Spec == Init /\ [][Next]_vars

\* the arbiter as the chat route drives it: every operation goes through the mutex
NextSerialized ==
  \/ \E c \in CallIds : Submit(c, "prepareOllama", "m1") \/ Submit(c, "prepareOllama", "m2")
  \/ \E c \in CallIds, a \in ModelArgs : Submit(c, "prepareLMStudio", a)
  \/ \E c \in CallIds, o \in UnloadOps : Submit(c, o, None)
  \/ \E c \in CallIds : Start(c)
  \/ \E c \in CallIds : Release(c)
  \/ \E c \in CallIds : Step(c)

ArbiterSpec == Init /\ [][NextSerialized]_vars

\* the event loop runs every ready callback and every network call settles
Fairness ==
  \A c \in CallIds : WF_vars(Start(c)) /\ WF_vars(Step(c)) /\ WF_vars(Release(c))

\* both backends start empty
LiveInit == Init /\ resident = [b \in Backends |-> {}]

LiveSpec == LiveInit /\ [][Next]_vars /\ Fairness

\* a process that has served requests: LM Studio's model m1 is tracked, and is
\* loaded, or was evicted by a later prepareLMStudio whose load then failed
WarmInit ==
  /\ session = NoSession
  /\ budget = NoBudget
  /\ chain = 0
  /\ locked = FALSE
  /\ queueSize = 0
  /\ activeProvider = LMStudio
  /\ activeModel = "m1"
  /\ calls = [c \in CallIds |-> Idle]
  /\ resident \in {[b \in Backends |-> IF b = LMStudio THEN r ELSE {}] : r \in InitialResidents}
  /\ clean = TRUE

WarmSpec == WarmInit /\ [][Next]_vars

\* the network call the task is waiting on was given AbortSignal.timeout, or
\* the step makes no network call: the probes (3 s), the listings that open
\* the unload routine (5 s), the polls of the waits (3 s each, inside a 15 s
\* or 30 s loop) and the Ollama warm-up (90 s) have one; the unload requests,
\* the listings of the target inside prepare and the LM Studio load have none
HasTimeout(r) ==
  CASE r.pc \in {"probe", "fresh", "uList", "uWait", "pWait", "lWait"} -> TRUE
    [] r.pc = "load" -> r.op = "prepareOllama" \/ r.loaded \/ r.arg \notin LMSInventory
    [] OTHER -> FALSE

\* a step whose network call settles by itself, whatever the backend does
TimedStep(c) == HasTimeout(calls[c]) /\ Step(c)

\* a backend may accept a request and never respond: only the calls with a
\* timeout are certain to settle
TimeoutFairness ==
  \A c \in CallIds : WF_vars(Start(c)) /\ WF_vars(TimedStep(c)) /\ WF_vars(Release(c))

TimeoutSpec == LiveInit /\ [][Next]_vars /\ TimeoutFairness

\* ------------------------------------------------------------ chatAction
\* a provider that is neither local backend
Cloud == "Cloud"
\* the model the fallback loads on Ollama ('qwen2.5-coder:7b-instruct')
FallbackModel == "m2"
\* MAX_RESPONSE_SEGMENTS of ~/lib/.server/llm/constants
MAX_RESPONSE_SEGMENTS == 2
\* finishReason values onFinish can receive
FinishReasons == {"stop", "length", "error"}

\* a user message: its [Model: ...] and [Provider: ...] markers, what follows
\* them, and whether its content is a string (or an array of parts)
UserMessage(mk, body, text) ==
  [role |-> "user", marker |-> mk, body |-> body, seg |-> 0, text |-> text]
\* an assistant message holding the output of generation call n of the
\* request (0: of an earlier request)
AssistantMessage(n) ==
  [role |-> "assistant", marker |-> <<None, None>>, body |-> "output", seg |-> n, text |-> TRUE]

\* the turns before the request: one exchange with a cloud model
History == <<UserMessage(<<Cloud, UnknownModel>>, "request", TRUE), AssistantMessage(0)>>

\* variant: messages.filter((x) => x.role == 'user')[0]
FirstUser(ms) ==
  CHOOSE i \in DOMAIN ms : ms[i].role = "user" /\ \A j \in DOMAIN ms : j < i => ms[j].role # "user"

\* index of messages.filter((x) => x.role == 'user').slice(-1)[0]
LastUser(ms) ==
  CHOOSE i \in DOMAIN ms : ms[i].role = "user" /\ \A j \in DOMAIN ms : j > i => ms[j].role # "user"

\* extractPropertiesFromMessage: the provider and model named by the markers
ExtractProperties(msg) == msg.marker

\* usage.x || 0
OrZero(x) == IF x = Missing THEN 0 ELSE x

\* variant: the totals are assigned, not added to
AccumulateAssigns(cum, u) ==
  IF u.present
  THEN [completion |-> OrZero(u.completion), prompt |-> OrZero(u.prompt), total |-> OrZero(u.total)]
  ELSE cum

\* if (usage) { cumulativeUsage.x += usage.x || 0 } for the three counts
Accumulate(cum, u) ==
  IF u.present
  THEN [completion |-> cum.completion + OrZero(u.completion),
        prompt |-> cum.prompt + OrZero(u.prompt),
        total |-> cum.total + OrZero(u.total)]
  ELSE cum

\* an onFinish callback of the request receives the usage u
Reported(s, u) ==
  [s EXCEPT !.cumulative = Accumulate(@, u), !.reports[u] = @ + 1]

\* the next acquire() gets the lowest unused call number
FreeCalls == {c \in CallIds : calls[c].pc = "idle"}
NextCall == CHOOSE c \in FreeCalls : \A d \in FreeCalls : c <= d

\* variant: order: progressCounter, the counter is not advanced
NextOrderSame(n) == n

\* progressCounter++
NextOrder(n) == n + 1

\* dataStream.writeData({type: 'progress', label, status, order: progressCounter++})
Emit(s, label, status) ==
  [s EXCEPT !.log = Append(@, [label |-> label, status |-> status, order |-> s.counter]),
            !.counter = NextOrder(@)]

\* the code after the resource block: summary and context selection when
\* filePaths.length > 0 && contextOptimization, otherwise the generation
AfterPrepare(s) == [s EXCEPT !.pc = IF s.optimise THEN "summary" ELSE "generate"]

\* a request arrives: the target is read from the last user message, the
\* arbiter call for it is submitted (local targets announce it first)
Request(p, m, text, opt) ==
  /\ session.pc = "idle"
  /\ FreeCalls # {}
  /\ LET s0 == [NoSession EXCEPT !.pc = "prepare", !.provider = p, !.model = m,
                                 !.marker = <<p, m>>, !.text = text, !.optimise = opt,
                                 !.call = NextCall,
                                 !.messages = Append(History, UserMessage(<<p, m>>, "request", text))]
     IN IF p = Ollama
        THEN /\ Acquire(NextCall, "prepareOllama", m)
             /\ session' = Emit(s0, "resources", "in-progress")
        ELSE IF p = LMStudio
        THEN /\ Acquire(NextCall, "prepareLMStudio", m)
             /\ session' = Emit(s0, "resources", "in-progress")
        ELSE /\ Acquire(NextCall, "unloadAll", None)
             /\ session' = s0
  /\ UNCHANGED budget

\* variant: the catch block reports the error and goes on to the generation
OllamaCatchContinues(s, e) ==
  AfterPrepare([Emit(s, "resources", "complete") EXCEPT !.failed = e])

\* catch (rmErr) of the Ollama branch: report the error, rethrow
OllamaCatch(s, e) ==
  [Emit(s, "resources", "complete") EXCEPT !.pc = "errored", !.failed = e, !.error = e]

\* variant: the arbiter call is not awaited, the request goes on at once
PrepareDoneNoAwait(up) ==
  /\ session.pc = "prepare"
  /\ session' = AfterPrepare(session)
  /\ UNCHANGED <<chain, locked, queueSize, activeProvider, activeModel, calls, resident, clean, budget>>

\* the awaited arbiter call of the target has settled;
\* up: whether the other local backend is answering at this moment
PrepareDone(up) ==
  LET s == session
      res == calls[s.call].result
  IN /\ s.pc = "prepare"
     /\ calls[s.call].pc \in {"done", "rejected"}
     /\ session' =
          IF s.provider = Ollama
          THEN IF res = OK
               THEN AfterPrepare(Emit(s, "resources", "complete"))
               ELSE OllamaCatch([s EXCEPT !.otherUp = up], res)
          ELSE IF s.provider = LMStudio
          THEN IF res = OK
               THEN AfterPrepare(s)
               ELSE [Emit(s, "resources", "in-progress") EXCEPT !.pc = "fallbackProbe", !.failed = res]
          ELSE IF res = OK THEN AfterPrepare(s) ELSE [s EXCEPT !.pc = "errored", !.error = res]
     /\ UNCHANGED <<chain, locked, queueSize, activeProvider, activeModel, calls, resident, clean, budget>>

\* isOllamaReachable() inside the LM Studio catch block has answered
FallbackProbe(up) ==
  LET s == [session EXCEPT !.otherUp = up]
  IN /\ session.pc = "fallbackProbe"
     /\ IF up = "up"
        THEN /\ FreeCalls # {}
             /\ Acquire(NextCall, "prepareOllama", FallbackModel)
             /\ session' = [s EXCEPT !.pc = "fallbackPrepare", !.fallback = NextCall]
        ELSE /\ session' = [Emit(s, "resources", "complete") EXCEPT
                              !.pc = "errored", !.error = "NoLocalServers"]
             /\ UNCHANGED <<chain, locked, queueSize, activeProvider, activeModel, calls, resident, clean>>
     /\ UNCHANGED budget

\* variant: the markers are rewritten whatever the content is
RewrittenAlways(s) == <<Ollama, FallbackModel>>

\* the markers of the most recent user message after the fallback loop:
\* replaced when its content is a string, left alone when it is an array
Rewritten(s) == IF s.text THEN <<Ollama, FallbackModel>> ELSE s.marker

\* the awaited prepareOllama(fallbackModel) has settled
FallbackDone ==
  LET s == session
      res == calls[s.fallback].result
  IN /\ s.pc = "fallbackPrepare"
     /\ calls[s.fallback].pc \in {"done", "rejected"}
     /\ session' =
          IF res = OK
          THEN AfterPrepare(Emit([s EXCEPT !.marker = Rewritten(s),
                                           !.messages[LastUser(s.messages)].marker = Rewritten(s)],
                                 "resources", "complete"))
          ELSE [s EXCEPT !.pc = "errored", !.error = res]
     /\ UNCHANGED <<chain, locked, queueSize, activeProvider, activeModel, calls, resident, clean, budget>>

\* createSummary is called
Summarise ==
  /\ session.pc = "summary"
  /\ session' = [Emit(session, "summary", "in-progress") EXCEPT !.pc = "summaryWait"]
  /\ UNCHANGED <<chain, locked, queueSize, activeProvider, activeModel, calls, resident, clean, budget>>

\* createSummary returned or threw: either way one 'complete' event;
\* u: the usage its onFinish got (absent also when onFinish was not reached)
SummaryDone(u) ==
  /\ session.pc = "summaryWait"
  /\ session' = [Emit(Reported(session, u), "summary", "complete") EXCEPT !.pc = "context"]
  /\ UNCHANGED <<chain, locked, queueSize, activeProvider, activeModel, calls, resident, clean, budget>>

\* selectContext is called
SelectContext ==
  /\ session.pc = "context"
  /\ session' = [Emit(session, "context", "in-progress") EXCEPT !.pc = "contextWait"]
  /\ UNCHANGED <<chain, locked, queueSize, activeProvider, activeModel, calls, resident, clean, budget>>

\* selectContext returned or threw: either way one 'complete' event;
\* u: the usage its onFinish got (absent also when onFinish was not reached)
ContextDone(u) ==
  /\ session.pc = "contextWait"
  /\ session' = [Emit(Reported(session, u), "context", "complete") EXCEPT !.pc = "generate"]
  /\ UNCHANGED <<chain, locked, queueSize, activeProvider, activeModel, calls, resident, clean, budget>>

\* a generation call for the provider and model of the last user message
StreamTextCalled(s) ==
  [s EXCEPT !.gens = Append(@, ExtractProperties(s.messages[LastUser(s.messages)])),
            !.pc = "streaming"]

\* the two messages.push of the continuation: the output of the segment that
\* just finished, then the continue prompt under the markers extracted from
\* the last user message
Continued(s) ==
  LET mk == ExtractProperties(s.messages[LastUser(s.messages)])
  IN [s EXCEPT !.messages = @ \o <<AssistantMessage(Len(s.gens)), UserMessage(mk, "continue", TRUE)>>,
               !.marker = mk]

\* the first streamText call; ok: it returned a stream (it throws e.g. when
\* the provider lists no model)
Generate(ok) ==
  LET s == Emit(session, "response", "in-progress")
  IN /\ session.pc = "generate"
     /\ session' = IF ok THEN StreamTextCalled(s)
                   ELSE [s EXCEPT !.pc = "errored", !.error = "StreamTextFailed"]
     /\ UNCHANGED <<chain, locked, queueSize, activeProvider, activeModel, calls, resident, clean, budget>>

\* variant: every finish is treated as final
IsFinalAlways(reason) == TRUE

\* finishReason !== 'length'
IsFinal(reason) == reason # "length"

\* onFinish of a generation call with the usage u; ok: the continuation's
\* streamText returned
Finish(reason, ok, u) ==
  LET s == [Reported(session, u) EXCEPT !.reasons = Append(@, reason)]
  IN /\ session.pc = "streaming"
     /\ IF IsFinal(reason)
        THEN session' = [Emit([s EXCEPT !.usage = @ + 1,
                                        !.annotations = Append(@, s.cumulative)],
                              "response", "complete") EXCEPT !.pc = "complete"]
        ELSE IF s.switches >= MAX_RESPONSE_SEGMENTS
        THEN session' = [s EXCEPT !.pc = "errored", !.error = "SegmentLimitExceeded"]
        ELSE /\ Len(s.gens) < MaxGen
             /\ session' = IF ok THEN StreamTextCalled(Continued(s))
                           ELSE [Continued(s) EXCEPT !.pc = "errored", !.error = "StreamTextFailed"]
     /\ UNCHANGED <<chain, locked, queueSize, activeProvider, activeModel, calls, resident, clean, budget>>

\* an error part in fullStream: logged, the request ends without onFinish
StreamError ==
  /\ session.pc = "streaming"
  /\ session' = [session EXCEPT !.pc = "closed"]
  /\ UNCHANGED <<chain, locked, queueSize, activeProvider, activeModel, calls, resident, clean, budget>>

\* one request from its arrival to its end, the chat route being the arbiter's only caller
SessionNext ==
  \/ \E m \in Models, opt \in BOOLEAN : Request(Ollama, m, TRUE, opt)
  \/ \E m \in ModelArgs, text \in BOOLEAN, opt \in BOOLEAN : Request(LMStudio, m, text, opt)
  \/ \E opt \in BOOLEAN : Request(Cloud, None, TRUE, opt)
  \/ \E up \in {"up", "down"} : PrepareDone(up)
  \/ \E up \in {"up", "down"} : FallbackProbe(up)
  \/ FallbackDone
  \/ Summarise
  \/ \E u \in {NoUsage, FullUsage} : SummaryDone(u)
  \/ SelectContext
  \/ \E u \in {NoUsage, FullUsage} : ContextDone(u)
  \/ \E ok \in BOOLEAN : Generate(ok)
  \/ \E reason \in FinishReasons, ok \in BOOLEAN, u \in UsageReports : Finish(reason, ok, u)
  \/ StreamError
  \/ \E c \in CallIds : Start(c)
  \/ \E c \in CallIds : Release(c)
  \/ \E c \in CallIds : Step(c)

\* what a request can find: the arbiter of a process that just started, or
\* one where an earlier request left a model prepared on either backend
ArbiterStates ==
  {[tracked |-> <<None, None>>, resident |-> [b \in Backends |-> IF b = LMStudio THEN r ELSE {}]] :
     r \in InitialResidents}
  \cup {[tracked |-> <<p, "m1">>, resident |-> [b \in Backends |-> IF b = p THEN {"m1"} ELSE {}]] :
          p \in Backends}

SessionInit ==
  /\ session = NoSession
  /\ budget = NoBudget
  /\ chain = 0
  /\ locked = FALSE
  /\ queueSize = 0
  /\ calls = [c \in CallIds |-> Idle]
  /\ clean = TRUE
  /\ \E a \in ArbiterStates :
       /\ activeProvider = a.tracked[1]
       /\ activeModel = a.tracked[2]
       /\ resident = a.resident

SessionSpec == SessionInit /\ [][SessionNext]_vars

\* the arbiter call of another request that arrives while this one is served
\* (the mutex serialises the arbiter calls, not the requests); one such
\* request is followed
OtherRequest(o, a) ==
  /\ session.pc # "idle"
  /\ \A c \in CallIds \ {session.call, session.fallback} : calls[c].pc = "idle"
  /\ FreeCalls # {}
  /\ Submit(NextCall, o, a)

\* one request for the local model m1, without context optimisation, followed
\* from its arrival to its end while another request arrives
ConcurrentNext ==
  \/ \E p \in Backends : Request(p, "m1", TRUE, FALSE)
  \/ \E up \in {"up", "down"} : PrepareDone(up)
  \/ \E up \in {"up", "down"} : FallbackProbe(up)
  \/ FallbackDone
  \/ \E ok \in BOOLEAN : Generate(ok)
  \/ \E reason \in FinishReasons, ok \in BOOLEAN : Finish(reason, ok, FullUsage)
  \/ StreamError
  \/ \E m \in Models : OtherRequest("prepareOllama", m)
  \/ \E m \in ModelArgs : OtherRequest("prepareLMStudio", m)
  \/ OtherRequest("unloadAll", None)
  \/ \E c \in CallIds : Start(c)
  \/ \E c \in CallIds : Release(c)
  \/ \E c \in CallIds : Step(c)

ConcurrentSpec == SessionInit /\ [][ConcurrentNext]_vars

\* ------------------------------------------------------------ streamText
\* context windows (modelDetails.maxTokenAllowed) of the models tried
ContextWindows == {2048, 8192, 16384, 32768}
\* the promptId argument: absent, or naming a prompt of the library
PromptIds == {None, "default", "compact"}
\* word counts of the system prompt built before the budget (with context
\* buffer, summary and locked-file list) and of the library's compact prompt
\* (0: the library has none), and of a message
SystemWords == {200, 400, 4000, 14000}
CompactWords == {0, 300}
MessageWords == {20, 2000}
\* SAFETY_MARGIN
SAFETY_MARGIN == 500
\* the floor of the output budget
OutputFloor == 4096
\* the per-message token cost the trimming divides by
PerMessage == 300

Max(a, b) == IF a >= b THEN a ELSE b

\* estimateTokens of a text of w whitespace-separated words: ceil(w * 2.5)
EstimateTokens(w) == (5 * w + 1) \div 2

RECURSIVE SumTokens(_)
\* processedMessages.reduce((sum, m) => sum + estimateTokens(m.content), 0)
SumTokens(ms) == IF ms = <<>> THEN 0 ELSE EstimateTokens(Head(ms)) + SumTokens(Tail(ms))

\* variant: the oldest k messages are kept
FirstK(ms, k) == IF k >= Len(ms) THEN ms ELSE SubSeq(ms, 1, k)

\* ms.slice(-k) for k >= 1
LastK(ms, k) == IF k >= Len(ms) THEN ms ELSE SubSeq(ms, Len(ms) - k + 1, Len(ms))

\* the prompt chosen when no promptId is given
TierFor(ctx) == IF ctx >= 32768 THEN "default" ELSE IF ctx >= 12288 THEN "optimized" ELSE "compact"

\* variant: the difference is passed on without a floor
AvailableNoFloor(ctx, used) == ctx - used

\* variant: the margin is handed to the output a second time
AvailableWithMargin(ctx, used) == Max(OutputFloor, ctx - used + SAFETY_MARGIN)

\* Math.max(4096, dynamicMaxTokens - usedTokens)
AvailableForOutput(ctx, used) == Max(OutputFloor, ctx - used)

MessageLists == UNION {[1 .. n -> MessageWords] : n \in 0 .. MaxMsgs}

\* continuation pairs one request may have pushed onto its message list
Pairs == 0 .. (MaxGen - 1)

\* streamText is entered with a model, a prompt and a message list: the
\* client's history ending with the user's request, followed by the pairs
\* (assistant segment, continue instruction) the continuations pushed
BudgetInputs ==
  {b \in [pc : {"ready"}, ctx : ContextWindows, promptId : PromptIds, sys : SystemWords,
          compact : CompactWords, msgs : MessageLists, pairs : Pairs] :
     b.pairs = 0 \/ Len(b.msgs) >= 2 * b.pairs + 1}

\* message i of a list of n messages ending with p continuation pairs is a
\* continue instruction (the second message of a pair)
IsContinue(n, p, i) == i > n - 2 * p /\ i <= n /\ (n - i) % 2 = 0

\* variant: an overflowing prompt is kept as it is
DowngradesNever(isOverflow, tier, compact) == FALSE

\* isOverflow && effectivePromptId !== 'compact', and the library has a
\* compact prompt (if (compactPrompt))
Downgrades(isOverflow, tier, compact) == isOverflow /\ tier # "compact" /\ compact # 0

\* the budget block of streamText, from estimateTokens to availableForOutput,
\* for the inputs b: the locals it ends with
Budget(b) ==
  LET tier0 == IF b.promptId = None THEN TierFor(b.ctx) ELSE b.promptId
      msgT == SumTokens(b.msgs)
      used0 == EstimateTokens(b.sys) + msgT + SAFETY_MARGIN
      isOverflow == used0 > b.ctx
      downgrade == Downgrades(isOverflow, tier0, b.compact)
      prompt1 == IF downgrade THEN b.compact ELSE b.sys
      tier1 == IF downgrade THEN "compact" ELSE tier0
      sysT1 == EstimateTokens(prompt1)
      used1 == sysT1 + msgT + SAFETY_MARGIN
      trim == isOverflow /\ used1 > b.ctx
      keepCount == Max(2, (b.ctx - sysT1 - SAFETY_MARGIN) \div PerMessage)
      kept == IF trim THEN LastK(b.msgs, keepCount) ELSE b.msgs
      used2 == IF trim THEN sysT1 + SumTokens(kept) + SAFETY_MARGIN ELSE used1
  IN [pc |-> "done", ctx |-> b.ctx, promptId |-> b.promptId, sys |-> b.sys,
      compact |-> b.compact, msgs |-> b.msgs, pairs |-> b.pairs,
      tier |-> tier1, prompt |-> prompt1, overflow |-> isOverflow,
      trimmed |-> trim, kept |-> kept, used |-> used2,
      out |-> AvailableForOutput(b.ctx, used2)]

\* one call of streamText runs its budget block
StreamTextBudget ==
  /\ budget.pc = "ready"
  /\ budget' = Budget(budget)
  /\ UNCHANGED <<chain, locked, queueSize, activeProvider, activeModel, calls, resident, clean, session>>

\* no request in flight, both backends empty
Quiet ==
  /\ chain = 0
  /\ locked = FALSE
  /\ queueSize = 0
  /\ activeProvider = None
  /\ activeModel = None
  /\ calls = [c \in CallIds |-> Idle]
  /\ resident = [b \in Backends |-> {}]
  /\ clean = TRUE
  /\ session = NoSession

BudgetInit == Quiet /\ budget \in BudgetInputs

BudgetNext == StreamTextBudget

BudgetSpec == BudgetInit /\ [][BudgetNext]_vars

\* ---------------------------------------------------------------- claims
Target(c) == <<TargetOf(calls[c].op), calls[c].arg>>
Tracked == <<activeProvider, activeModel>>
IsPrepare(c) == calls[c].op \in PrepareOps
\* c2 was chained directly behind c1 and asks for the same provider and model
SameTargetBehind(c1, c2) ==
  /\ c1 # 0
  /\ calls[c2].pred = c1
  /\ IsPrepare(c2)
  /\ calls[c1].op = calls[c2].op
  /\ calls[c1].arg = calls[c2].arg

\* C1: at most one task body is executing in every reachable state
MutualExclusion ==
  \A c, d \in CallIds : (Executing(c) /\ Executing(d)) => c = d

C1Witness ==
  \E c, d \in CallIds : Executing(c) /\ calls[d].pc = "queued" /\ locked /\ queueSize > 0

\* C2: task bodies start in submission order, and a later task does not
\* start before every earlier one has fully completed
FifoAdmission ==
  \A c, d \in CallIds : (c < d /\ Started(d)) => Completed(c)

C2Witness ==
  \E c, d \in CallIds :
    /\ c < d
    /\ calls[d].pred = c
    /\ Completed(c)
    /\ calls[c].result \in Failures
    /\ Executing(d)

\* C3: a task's outcome, failure included, settles that caller's promise and
\* no other, only after the task has run, and leaves the lock released
FailureIsolation ==
  [][\A c \in CallIds :
       (calls[c].result = "pending" /\ calls'[c].result # "pending")
         => /\ calls[c].pc = "fin"
            /\ calls'[c].result = calls[c].err
            /\ locked' = FALSE
            /\ \A d \in CallIds \ {c} : calls'[d].result = calls[d].result]_vars

C3Witness ==
  \E c, d \in CallIds :
    /\ c # d
    /\ calls[c].result \in Failures
    /\ calls[d].result = OK
    /\ calls[d].pc = "done"
    /\ ~ locked

\* C4: every submitted task eventually starts and completes
NoStarvation ==
  \A c \in CallIds : (calls[c].pc = "queued") ~> (calls[c].pc = "done")

C4Witness ==
  /\ \A c \in CallIds : calls[c].pc = "done"
  /\ \E c \in CallIds : calls[c].result \in Failures
  /\ \E c \in CallIds : calls[c].result = OK

\* C5 as stated: after any successful prepare at most one backend has a
\* non-empty resident list, also when an unload wait timed out or a poll failed
BackendExclusion ==
  \A c \in CallIds :
    (IsPrepare(c) /\ calls[c].pc = "fin" /\ calls[c].err = OK)
      => (resident[Ollama] = {} \/ resident[LMStudio] = {})

\* C5 amended: the same, in runs where no unload listing or unload request
\* failed and no unload confirmation wait timed out or had a failed poll
BackendExclusionWhenConfirmed ==
  \A c \in CallIds :
    (clean /\ IsPrepare(c) /\ calls[c].pc = "fin" /\ calls[c].err = OK)
      => (StillLoaded(Ollama, None) = {} \/ StillLoaded(LMStudio, None) = {})

C5Witness ==
  \E c \in CallIds :
    /\ clean
    /\ IsPrepare(c)
    /\ calls[c].pc = "fin"
    /\ calls[c].err = OK
    /\ <<Other(TargetOf(calls[c].op)), "unload">> \in calls[c].issued
    /\ resident[TargetOf(calls[c].op)] # {}

\* C6: a prepare(P, M) right behind a successful prepare(P, M) issues no
\* unload, load or warm-up call, succeeds and leaves (P, M) tracked
IdempotentPrepare ==
  \A c1, c2 \in CallIds :
    (SameTargetBehind(c1, c2) /\ calls[c1].result = OK /\ calls[c2].pc \in {"fin", "done"})
      => /\ calls[c2].issued = {}
         /\ calls[c2].err = OK
         /\ (calls[c2].pc = "fin" => Tracked = Target(c2))

C6Witness ==
  \E c1, c2 \in CallIds :
    /\ SameTargetBehind(c1, c2)
    /\ calls[c1].result = OK
    /\ calls[c1].issued # {}
    /\ calls[c2].pc = "done"

\* C7: behind a successful prepare(P, M), a queued prepare(P, M) is admitted
\* with (P, M) tracked and never leaves the fast path
SecondTakesFastPath ==
  \A c1, c2 \in CallIds :
    (SameTargetBehind(c1, c2) /\ calls[c1].result = OK)
      => /\ calls[c2].pc \in {"queued", "fresh", "fin", "done"}
         /\ (calls[c2].pc \in {"fresh", "fin"} => Tracked = Target(c2))

C7Witness ==
  \E c1, c2 \in CallIds :
    /\ SameTargetBehind(c1, c2)
    /\ calls[c1].result = OK
    /\ <<LMStudio, "load">> \in calls[c1].issued
    /\ calls[c2].pc = "fresh"

\* C8: a prepare that fails with BackendUnavailable leaves nothing tracked
\* and has issued no unload, load or warm-up call
UnavailableClearsTracking ==
  \A c \in CallIds :
    (calls[c].pc = "fin" /\ calls[c].err = BackendUnavailable)
      => /\ IsPrepare(c)
         /\ activeProvider = None
         /\ activeModel = None
         /\ calls[c].issued = {}

C8Witness ==
  \E c, d \in CallIds :
    /\ calls[d].pc = "fin"
    /\ calls[d].err = BackendUnavailable
    /\ calls[d].pred = c
    /\ IsPrepare(c)
    /\ calls[c].result = OK
    /\ calls[c].issued # {}

\* C9 as stated: a prepare that fails with PrepareFailed leaves nothing tracked
PrepareFailedClearsTracking ==
  \A c \in CallIds :
    (calls[c].pc = "fin" /\ calls[c].err = PrepareFailed)
      => (activeProvider = None /\ activeModel = None)

\* C10 as stated: a prepare that sent a load or warm-up for its target and
\* reports success has the target model resident (the load did not fail)
FailedLoadNeverSucceeds ==
  \A c \in CallIds :
    (IsPrepare(c) /\ calls[c].pc = "fin" /\ calls[c].err = OK
       /\ <<TargetOf(calls[c].op), "load">> \in calls[c].issued)
      => calls[c].arg \in resident[TargetOf(calls[c].op)]

\* C11 as stated: every unloadAll() that completes has run the unload routine
\* against both backends, whatever was tracked when it started, and leaves
\* nothing tracked
UnloadAllUnconditional ==
  \A c \in CallIds :
    (calls[c].op = "unloadAll" /\ calls[c].pc = "fin")
      => /\ calls[c].ran = Backends
         /\ Tracked = <<None, None>>

\* the unload routine of call c against backend b has returned
RoutineReturned(c, b) ==
  /\ b \in calls[c].ran
  /\ ~ (calls[c].pc \in {"uList", "uReq", "uWait"} /\ calls[c].ub = b)

\* C12: the unload routine never raises: unloadAll and forceUnloadAll always
\* end in success, and a routine that sent no unload request (nothing
\* resident, or listing failed) returned count 0
UnloadNeverFails ==
  \A c \in CallIds :
    /\ (calls[c].op \in UnloadOps /\ calls[c].pc \in {"fin", "done"}) => calls[c].err = OK
    /\ \A b \in Backends :
         (calls[c].op \in UnloadOps /\ RoutineReturned(c, b) /\ <<b, "unload">> \notin calls[c].issued)
           => calls[c].freed[b] = 0

C12Witness ==
  \E c \in CallIds :
    /\ calls[c].op = "forceUnloadAll"
    /\ calls[c].pc = "done"
    /\ calls[c].result = OK
    /\ calls[c].ran = Backends
    /\ calls[c].issued = {}
    /\ calls[c].freed = [b \in Backends |-> 0]
    /\ resident[LMStudio] # {}

\* C13: a step in which no task moves (a resetTracking() call) leaves nothing
\* tracked and changes neither a backend's resident set, nor the requests
\* issued, nor the mutex's locked flag, waiting count or chain
ResetTouchesOnlyTracking ==
  [][(calls' = calls)
       => /\ activeProvider' = None
          /\ activeModel' = None
          /\ resident' = resident
          /\ locked' = locked
          /\ queueSize' = queueSize
          /\ chain' = chain]_vars

C13Witness ==
  \E c \in CallIds :
    /\ IsPrepare(c)
    /\ calls[c].pc = "fin"
    /\ calls[c].err = OK
    /\ Tracked = <<None, None>>
    /\ locked
    /\ resident[TargetOf(calls[c].op)] # {}

\* C14 as stated: when prepare(P, M2) succeeds right behind a successful
\* prepare(P, M1) with M1 # M2, backend P holds exactly M2, unless an unload
\* request the second call sent for M1 did not take effect
SameBackendSwap ==
  \A c1, c2 \in CallIds :
    (/\ c1 # 0
     /\ calls[c2].pred = c1
     /\ IsPrepare(c2)
     /\ calls[c1].op = calls[c2].op
     /\ calls[c1].arg # calls[c2].arg
     /\ calls[c1].result = OK
     /\ calls[c2].pc = "fin"
     /\ calls[c2].err = OK)
      => \/ resident[TargetOf(calls[c2].op)] = {calls[c2].arg}
         \/ /\ calls[c1].arg \in resident[TargetOf(calls[c2].op)]
            /\ <<TargetOf(calls[c2].op), "unload">> \in calls[c2].issued

\* C15 as stated: no request issues more than MAX_RESPONSE_SEGMENTS generation
\* calls, and one whose segments all finished with "length" has ended with
\* SegmentLimitExceeded once it issued that many
SegmentBound ==
  /\ Len(session.gens) <= MAX_RESPONSE_SEGMENTS
  /\ (Len(session.reasons) >= MAX_RESPONSE_SEGMENTS /\ \A i \in DOMAIN session.reasons : session.reasons[i] = "length")
       => (session.pc = "errored" /\ session.error = "SegmentLimitExceeded")

\* number of progress events of the log with the given label and status
Emitted(label, status) ==
  Cardinality({i \in DOMAIN session.log :
                 session.log[i].label = label /\ session.log[i].status = status})

\* C16: a usage annotation and a 'response' complete event are emitted exactly
\* once, by the first segment that finishes with a reason other than "length";
\* that segment is the last generation call, and segments that finished with
\* "length" emit neither
CompletionDecision ==
  /\ session.usage = (IF session.pc = "complete" THEN 1 ELSE 0)
  /\ Emitted("response", "complete") = session.usage
  /\ \A i \in DOMAIN session.reasons :
       (session.reasons[i] # "length") <=> (session.pc = "complete" /\ i = Len(session.reasons))
  /\ session.pc = "complete" => Len(session.gens) = Len(session.reasons)

C16Witness ==
  /\ session.pc = "complete"
  /\ Len(session.gens) = 3
  /\ session.reasons = <<"length", "length", "error">>
  /\ session.usage = 1

\* the request is past its resource block
Prepared(s) ==
  s.pc \in {"summary", "summaryWait", "context", "contextWait", "generate", "streaming",
            "complete", "closed"} \/ s.error \in {"StreamTextFailed", "SegmentLimitExceeded"}

\* C17: a generation call is issued only after the request's arbiter call
\* (prepare of the target or of the fallback, unloadAll for a cloud target)
\* has completed with success; a request whose prepare failed without a
\* successful fallback is Errored with no generation call
ArbiterBeforeGeneration ==
  LET last == IF session.fallback # 0 THEN session.fallback ELSE session.call
  IN /\ (session.gens # <<>> \/ Prepared(session))
          => /\ last # 0
             /\ calls[last].pc = "done"
             /\ calls[last].result = OK
             /\ calls[last].op = (IF session.fallback # 0 THEN "prepareOllama"
                                  ELSE IF session.provider = Ollama THEN "prepareOllama"
                                  ELSE IF session.provider = LMStudio THEN "prepareLMStudio"
                                  ELSE "unloadAll")
     /\ (session.pc \notin {"idle", "prepare", "fallbackPrepare"} /\ calls[last].result \in Failures)
          => (session.gens = <<>> /\ session.pc \in {"errored", "fallbackProbe"})

C17Witness ==
  /\ session.pc = "streaming"
  /\ session.failed \in Failures
  /\ session.fallback # 0
  /\ calls[session.fallback].result = OK
  /\ <<Ollama, "load">> \in calls[session.fallback].issued

ProgressOrdering ==
  \A i, j \in DOMAIN session.log : i < j => session.log[i].order < session.log[j].order

C19Witness ==
  /\ session.pc = "complete"
  /\ session.fallback # 0
  /\ session.optimise
  /\ Len(session.gens) > 1
  /\ Len(session.log) = 9

\* tokens of the prompt and messages the generation call is given, plus the margin
UsedTokens == EstimateTokens(budget.prompt) + SumTokens(budget.kept) + SAFETY_MARGIN

\* C20: the output budget passed to the generation call is the larger of 4096
\* and contextWindow - usedTokens, so never below 4096 and never negative
OutputBudgetFloor ==
  budget.pc = "done"
    => /\ budget.out >= 4096
       /\ budget.out >= budget.ctx - UsedTokens
       /\ budget.out = 4096 \/ budget.out = budget.ctx - UsedTokens

C20Witness ==
  /\ budget.pc = "done"
  /\ budget.trimmed
  /\ budget.ctx - UsedTokens < 0
  /\ budget.out = 4096
\* the inputs of the computation with only the first k messages
Shorter(k) == [budget EXCEPT !.pc = "ready", !.msgs = SubSeq(budget.msgs, 1, k)]

\* C21 as stated: with the same prompt, tier and context window, the output
\* budget for a message list is never larger than the one for a shorter list
\* it extends, also when only the longer list is downgraded or trimmed
BudgetMonotone ==
  budget.pc = "done"
    => \A k \in 0 .. Len(budget.msgs) : budget.out <= Budget(Shorter(k)).out

\* C22: when the prompt of the tier selected first, the messages and the
\* margin exceed the context window while the compact prompt, the messages and
\* the margin fit, the computation ends on the compact tier with
\* usedTokens <= contextWindow and every message kept
TierDowngrade ==
  (/\ budget.pc = "done"
   /\ (IF budget.promptId = None THEN TierFor(budget.ctx) ELSE budget.promptId) # "compact"
   /\ EstimateTokens(budget.sys) + SumTokens(budget.msgs) + SAFETY_MARGIN > budget.ctx
   /\ budget.compact # 0
   /\ EstimateTokens(budget.compact) + SumTokens(budget.msgs) + SAFETY_MARGIN <= budget.ctx)
    => /\ budget.tier = "compact"
       /\ budget.prompt = budget.compact
       /\ budget.used <= budget.ctx
       /\ budget.used = UsedTokens
       /\ ~ budget.trimmed
       /\ budget.kept = budget.msgs

C22Witness ==
  /\ budget.pc = "done"
  /\ budget.promptId = None
  /\ budget.ctx = 16384
  /\ budget.overflow
  /\ budget.tier = "compact"
  /\ budget.used <= budget.ctx
  /\ Len(budget.kept) = 2
\* C23 as stated: every critical section that has started eventually
\* completes and every queued caller is eventually admitted, also when a
\* backend accepts requests and never responds
BoundedSections ==
  \A c \in CallIds :
    /\ Executing(c) ~> Completed(c)
    /\ (calls[c].pc = "queued") ~> Started(c)
\* the backend prepare call c must evict: the one it does not load on
Competing(c) == IF calls[c].op = "prepareOllama" THEN LMStudio ELSE Ollama

\* C24: inside one prepare, no unload, load or warm-up request goes to the
\* target backend before the unload routine against the competing backend
\* (listing, unload requests, confirmation wait) has returned
EvictionOrder ==
  \A c \in CallIds :
    IsPrepare(c)
      => /\ (\E k \in {"unload", "load"} : <<TargetOf(calls[c].op), k>> \in calls[c].issued)
              => RoutineReturned(c, Competing(c))
         /\ calls[c].pc \in {"pList", "pReq", "pWait", "load", "lWait"}
              => RoutineReturned(c, Competing(c))
         /\ calls[c].pc \in {"uList", "uReq", "uWait"} => calls[c].ub = Competing(c)

C24Witness ==
  \E c \in CallIds :
    /\ IsPrepare(c)
    /\ calls[c].pc = "pWait"
    /\ <<Competing(c), "unload">> \in calls[c].issued
    /\ <<TargetOf(calls[c].op), "unload">> \in calls[c].issued
    /\ resident[Competing(c)] # {}
\* C25 as stated: a prepare(P, M) that succeeds without a load or warm-up
\* because P already held M has run the unload routine against the competing
\* backend and left it empty, whatever was tracked when it was called
ResidentTargetStillEvicts ==
  \A c \in CallIds :
    (/\ IsPrepare(c)
     /\ calls[c].pc = "fin"
     /\ calls[c].err = OK
     /\ calls[c].arg \in StillLoaded(TargetOf(calls[c].op), None)
     /\ <<TargetOf(calls[c].op), "load">> \notin calls[c].issued)
      => /\ RoutineReturned(c, Competing(c))
         /\ StillLoaded(Competing(c), None) = {}

\* C25 amended: a prepare(P, M) that is past the fast path and whose listing
\* of P showed M resident has run the unload routine against the competing
\* backend, which is empty if no unload listing, request or wait has failed
\* or timed out, and it ends in success with (P, M) tracked without sending a
\* load or warm-up; a prepare(P, M) that ends on the fast path has run no
\* unload routine
ResidentTargetSlowPath ==
  /\ [](\A c \in CallIds :
          /\ (IsPrepare(c) /\ calls[c].pc = "load" /\ calls[c].loaded)
               => /\ RoutineReturned(c, Competing(c))
                  /\ calls[c].arg \in resident[TargetOf(calls[c].op)]
                  /\ clean => StillLoaded(Competing(c), None) = {}
          /\ (IsPrepare(c) /\ calls[c].pc = "fin" /\ calls[c].err = OK /\ calls[c].ran = {})
               => calls[c].issued = {})
  /\ [][\A c \in CallIds :
          (IsPrepare(c) /\ calls[c].pc = "load" /\ calls[c].loaded /\ calls'[c] # calls[c])
            => /\ calls'[c].issued = calls[c].issued
               /\ calls'[c].pc = "fin"
               /\ calls'[c].err = OK
               /\ resident' = resident
               /\ <<activeProvider', activeModel'>> = Target(c)]_vars

C25Witness ==
  \E c \in CallIds :
    /\ IsPrepare(c)
    /\ calls[c].pc = "fin"
    /\ calls[c].err = OK
    /\ <<Competing(c), "unload">> \in calls[c].issued
    /\ <<TargetOf(calls[c].op), "load">> \notin calls[c].issued
    /\ calls[c].arg \in resident[TargetOf(calls[c].op)]
    /\ resident[Competing(c)] = {}
\* C26 as stated: the tracked pair changes only in a step of the task that
\* holds the mutex, for every public operation, resetTracking included
MutationUnderLock ==
  [][Tracked' # Tracked
       => /\ locked
          /\ \E c \in CallIds : Executing(c) /\ calls'[c] # calls[c]]_vars
\* call c is inside a confirmation wait
Waiting(c) == calls[c].pc \in {"uWait", "pWait"}

\* C27: in the unload confirmation wait of either backend, a poll that fails
\* ends the wait at once with result 'released': the task leaves the wait, no
\* further poll or request is made for it and no error is raised
PollFailureReleases ==
  [][\A c \in CallIds :
       (Waiting(c) /\ calls'[c] # calls[c] /\ calls'[c].waited[1] = "failed")
         => /\ calls'[c].waited[2] = "released"
            /\ calls'[c].pc \in {"uList", "pList", "load", "fin"}
            /\ calls'[c].polls = 0
            /\ calls'[c].issued = calls[c].issued
            /\ calls'[c].err \notin Failures
            /\ resident' = resident]_vars

C27Witness ==
  \E c \in CallIds :
    /\ calls[c].waited = <<"failed", "released">>
    /\ calls[c].op = "prepareLMStudio"
    /\ calls[c].pc = "load"
    /\ StillLoaded(LMStudio, calls[c].arg) # {}
\* C28: a confirmation wait that times out raises no error: prepare goes on
\* to the listing of its target (after the competing backend's wait) or to
\* the load step (after the target's wait), unloadAll and forceUnloadAll go on
\* to the next backend or complete with nothing tracked; and a prepare whose
\* load step then ends in success has recorded its target
TimeoutNotAnError ==
  /\ [][\A c \in CallIds :
          (Waiting(c) /\ calls'[c] # calls[c] /\ calls'[c].waited[2] = "timeout")
            => /\ calls'[c].err \notin Failures
               /\ calls'[c].issued = calls[c].issued
               /\ IsPrepare(c)
                    => calls'[c].pc = (IF calls[c].pc = "uWait" THEN "pList" ELSE "load")
               /\ (calls[c].op \in UnloadOps /\ calls[c].ub = Ollama)
                    => (calls'[c].pc = "uList" /\ calls'[c].ub = LMStudio)
               /\ (calls[c].op \in UnloadOps /\ calls[c].ub = LMStudio)
                    => /\ calls'[c].pc = "fin"
                       /\ calls'[c].err = OK
                       /\ activeProvider' = None
                       /\ activeModel' = None]_vars
  /\ [][\A c \in CallIds :
          (/\ IsPrepare(c)
           /\ calls[c].pc \in {"load", "lWait"}
           /\ calls'[c].pc = "fin"
           /\ calls'[c].err = OK)
            => <<activeProvider', activeModel'>> = Target(c)]_vars

C28Witness ==
  \E c \in CallIds :
    /\ calls[c].waited = <<"deadline", "timeout">>
    /\ IsPrepare(c)
    /\ calls[c].pc = "load"
    /\ StillLoaded(TargetOf(calls[c].op), calls[c].arg) # {}
    /\ resident[Competing(c)] # {}
\* C29: when a generation call finishes with "length" below the segment
\* limit, the message list grows by exactly two entries, the assistant message
\* with that segment's output and then the continue message under the markers
\* of the most recent user message, the earlier messages are unchanged, and
\* one streamText call follows, which starts a generation for those markers
\* or throws
ContinuationStep ==
  [][(/\ session.pc = "streaming"
      /\ session'.reasons = Append(session.reasons, "length")
      /\ session.switches < MAX_RESPONSE_SEGMENTS)
       => LET ms == session.messages
              n == Len(ms)
          IN /\ Len(session'.messages) = n + 2
             /\ SubSeq(session'.messages, 1, n) = ms
             /\ session'.messages[n + 1].role = "assistant"
             /\ session'.messages[n + 1].seg = Len(session.gens)
             /\ session'.messages[n + 2].role = "user"
             /\ session'.messages[n + 2].body = "continue"
             /\ \E i \in 1 .. n :
                  /\ ms[i].role = "user"
                  /\ \A j \in (i + 1) .. n : ms[j].role # "user"
                  /\ session'.messages[n + 2].marker = ms[i].marker
             /\ \/ /\ session'.pc = "streaming"
                   /\ session'.gens = Append(session.gens, session'.messages[n + 2].marker)
                \/ /\ session'.pc = "errored"
                   /\ session'.error = "StreamTextFailed"
                   /\ session'.gens = session.gens]_vars

C29Witness ==
  /\ session.pc = "streaming"
  /\ session.fallback # 0
  /\ Len(session.gens) = 3
  /\ Len(session.messages) = 7
  /\ session.messages[5].marker = <<Ollama, FallbackModel>>
  /\ session.messages[7] = UserMessage(<<Ollama, FallbackModel>>, "continue", TRUE)
  /\ session.messages[6].seg = 2
\* the tokens of one kind that the onFinish callbacks of the request were
\* given in all, an unreported count taken as 0
ReportedTokens(full, partial) ==
  session.reports[FullUsage] * (IF full = Missing THEN 0 ELSE full)
    + session.reports[PartialUsage] * (IF partial = Missing THEN 0 ELSE partial)

\* C30: no component of cumulativeUsage ever decreases, and the usage
\* annotation emitted at completion is, component by component, the sum of
\* the usage reported by every segment and by the summary and context
\* selection calls that ran, a missing component counting as 0
UsageAggregation ==
  /\ [](session.pc = "complete"
          => session.annotations =
               <<[completion |-> ReportedTokens(FullUsage.completion, PartialUsage.completion),
                  prompt |-> ReportedTokens(FullUsage.prompt, PartialUsage.prompt),
                  total |-> ReportedTokens(FullUsage.total, PartialUsage.total)]>>)
  /\ [](session.pc # "complete" => session.annotations = <<>>)
  /\ [][/\ session'.cumulative.completion >= session.cumulative.completion
         /\ session'.cumulative.prompt >= session.cumulative.prompt
         /\ session'.cumulative.total >= session.cumulative.total]_vars

C30Witness ==
  /\ session.pc = "complete"
  /\ session.optimise
  /\ Len(session.gens) = 3
  /\ session.reports[FullUsage] = 2
  /\ session.reports[PartialUsage] = 2
  /\ session.reports[NoUsage] = 1
  /\ session.annotations = <<[completion |-> 8, prompt |-> 10, total |-> 14]>>

\* the number of messages the trimming keeps:
\* max(2, floor((contextWindow - systemPromptTokens - 500) / 300))
KeepCount == Max(2, (budget.ctx - EstimateTokens(budget.prompt) - 500) \div 300)

\* C31: when the budget still overflows after the downgrade, the messages
\* kept are exactly the last KeepCount messages of the list in their order
\* (all of them when the list is shorter), and at least 2 are kept whenever
\* the list has at least 2, also when the remaining budget is zero or negative
SuffixTrimming ==
  (budget.pc = "done" /\ budget.trimmed)
    => LET n == Len(budget.msgs)
           l == Len(budget.kept)
       IN /\ l = (IF KeepCount >= n THEN n ELSE KeepCount)
          /\ \A j \in 1 .. l : budget.kept[j] = budget.msgs[n - l + j]
          /\ n >= 2 => l >= 2

C31Witness ==
  /\ budget.pc = "done"
  /\ budget.trimmed
  /\ budget.ctx - EstimateTokens(budget.prompt) - 500 < 0
  /\ Len(budget.msgs) = 3
  /\ Len(budget.kept) = 2
  /\ budget.msgs[1] # budget.msgs[2]

\* C32 as stated: after the trimming, every continue instruction that is
\* kept is preceded in the kept list by the assistant message it was pushed with
NoDanglingMarker ==
  (budget.pc = "done" /\ budget.trimmed)
    => LET n == Len(budget.msgs)
           l == Len(budget.kept)
       IN \A j \in 1 .. l : IsContinue(n, budget.pairs, n - l + j) => j > 1

\* C40 as stated: the tokens used (prompt, kept messages, margin) plus the
\* output limit never exceed the context window
BudgetFitsWindow ==
  budget.pc = "done" => UsedTokens + budget.out <= budget.ctx

\* C40 amended: the used tokens plus the output limit fill the context window
\* exactly when at least 4096 tokens remain after the prompt, the kept
\* messages and the margin; otherwise the limit is the floor of 4096 and the
\* sum exceeds the window
BudgetFitsAboveFloor ==
  budget.pc = "done"
    => /\ budget.used = UsedTokens
       /\ budget.ctx - UsedTokens >= 4096 => UsedTokens + budget.out = budget.ctx
       /\ budget.ctx - UsedTokens < 4096
            => budget.out = 4096 /\ UsedTokens + budget.out > budget.ctx

C40Witness ==
  /\ budget.pc = "done"
  /\ budget.overflow
  /\ budget.tier = "compact"
  /\ budget.prompt = budget.compact
  /\ budget.out > 4096
  /\ UsedTokens + budget.out = budget.ctx

\* C33 as stated: prepareLMStudio(M) with (LM Studio, M) tracked returns on
\* the fast path only when the inventory reports M loaded
FastPathOnlyWhenLoaded ==
  [][\A c \in CallIds :
       (calls[c].pc = "fresh" /\ calls'[c].pc = "fin")
         => calls[c].arg \in resident[LMStudio]]_vars

\* C33 amended: the fast path is taken when the inventory reports M loaded or
\* cannot be read; when it is read and reports M not loaded, the tracked pair
\* is cleared and the call goes on, holding the lock, to the reachability probe
FreshnessCheck ==
  [][\A c \in CallIds :
       (calls[c].pc = "fresh" /\ calls'[c] # calls[c])
         => LET unread == calls'[c].waited = Unverified
                loaded == calls[c].arg \in resident[LMStudio]
            IN /\ (unread \/ loaded)
                    => /\ calls'[c].pc = "fin"
                       /\ calls'[c].err = OK
                       /\ calls'[c].issued = {}
                       /\ <<activeProvider', activeModel'>> = <<activeProvider, activeModel>>
               /\ (~ unread /\ ~ loaded)
                    => /\ calls'[c].pc = "probe"
                       /\ activeProvider' = None
                       /\ activeModel' = None
                       /\ locked'
                       /\ calls'[c].issued = {}]_vars

C33Witness ==
  \E c \in CallIds :
    /\ calls[c].op = "prepareLMStudio"
    /\ calls[c].pc = "probe"
    /\ calls[c].waited = Stale
    /\ calls[c].arg \notin resident[LMStudio]
    /\ Tracked = <<None, None>>
    /\ locked

\* C34 as stated: when a critical section ends, a backend it sent an unload
\* request to is not the tracked provider, unless the section is a prepare
\* that succeeded and recorded its own target after the eviction
TrackedSoundlyInvalidated ==
  \A c \in CallIds, b \in Backends :
    (calls[c].pc = "fin" /\ <<b, "unload">> \in calls[c].issued /\ activeProvider = b)
      => /\ IsPrepare(c)
         /\ calls[c].err = OK
         /\ Tracked = Target(c)

\* the target backend answered a call of prepare c: its reachability probe
\* (the competing backend's unload routine runs only behind it) or LM
\* Studio's freshness check
TargetAnswered(c) ==
  \/ calls[c].ran # {}
  \/ calls[c].op = "prepareLMStudio" /\ calls[c].waited # Unverified

\* C35 as stated: a prepare does not end in success unless its target
\* backend answered, also when its target is the tracked pair
NoSuccessWhenUnreachable ==
  \A c \in CallIds :
    (IsPrepare(c) /\ calls[c].pc = "fin" /\ calls[c].err = OK) => TargetAnswered(c)

\* C35 amended: a prepare leaves its reachability probe either with an answer,
\* for the competing backend's unload routine, or failing with
\* BackendUnavailable and nothing tracked; and a prepare that ends in success
\* has passed the probe or has returned on the fast path, where no probe is
\* made and no unload, load or warm-up call is issued
SuccessBehindProbe ==
  /\ [][\A c \in CallIds :
          (calls[c].pc = "probe" /\ calls'[c] # calls[c])
            => \/ /\ calls'[c].pc = "uList"
                  /\ calls'[c].ub = Competing(c)
               \/ /\ calls'[c].pc = "fin"
                  /\ calls'[c].err = BackendUnavailable
                  /\ activeProvider' = None
                  /\ activeModel' = None]_vars
  /\ [](\A c \in CallIds :
          (IsPrepare(c) /\ calls[c].pc = "fin" /\ calls[c].err = OK)
            => \/ Competing(c) \in calls[c].ran
               \/ calls[c].issued = {} /\ calls[c].ran = {})

C35Witness ==
  \E c \in CallIds :
    /\ calls[c].op = "prepareLMStudio"
    /\ calls[c].pc = "fin"
    /\ calls[c].err = OK
    /\ calls[c].waited = Unverified
    /\ calls[c].ran = {}
    /\ Tracked = Target(c)

\* the request has a local target, is past its resource block and its last
\* generation call has not finished
Serving ==
  /\ session.provider \in Backends
  /\ session.pc \in {"summary", "summaryWait", "context", "contextWait", "generate", "streaming"}
\* the pair the request's last successful prepare asked for
PreparedTarget ==
  IF session.fallback # 0 THEN <<Ollama, FallbackModel>> ELSE <<session.provider, session.model>>
\* the arbiter calls of other requests
Others == CallIds \ {session.call, session.fallback}
\* the prepared model leaves its backend in this step
Evicted ==
  /\ PreparedTarget[2] \in resident[PreparedTarget[1]]
  /\ PreparedTarget[2] \notin resident'[PreparedTarget[1]]

\* C36 as stated: from the success of a request's prepare(P, M) to the end of
\* its last generation call (P, M) stays tracked and M is not evicted from P,
\* whatever other requests do
ResidencyStable ==
  /\ [](Serving => Tracked = PreparedTarget)
  /\ [][(Serving /\ Serving') => ~ Evicted]_vars

\* C36 amended: (P, M) is tracked while the request generates as long as no
\* critical section of another request has started, and every change of the
\* tracked pair or eviction of M during the generation is a step of another
\* request's critical section
ResidencyUntilNextSection ==
  /\ []((Serving /\ \A c \in Others : ~ Started(c)) => Tracked = PreparedTarget)
  /\ [][(Serving /\ Serving' /\ (Tracked' # Tracked \/ Evicted))
          => \E c \in Others : Executing(c) /\ calls'[c] # calls[c]]_vars

C36Witness ==
  /\ session.pc = "streaming"
  /\ Len(session.gens) = 2
  /\ Tracked # PreparedTarget
  /\ PreparedTarget[2] \notin resident[PreparedTarget[1]]
  /\ \E c \in Others :
       /\ calls[c].pc = "done"
       /\ <<PreparedTarget[1], "unload">> \in calls[c].issued

\* C37 as stated: every generation call of a request with a local target,
\* continuations and fallback included, is made for the provider and model of
\* the request's last successful prepare
GenerationMatchesPrepare ==
  session.provider \in Backends
    => \A i \in 1 .. Len(session.gens) : session.gens[i] = PreparedTarget

\* C38: the tracked provider is None exactly when the tracked model is
\* absent, whatever prepares, unloads and resets have run or are running
TrackedPairTogether ==
  (activeProvider = None) <=> (activeModel = None)

C38Witness ==
  \E c1, c2 \in CallIds :
    /\ IsPrepare(c1)
    /\ calls[c1].result = OK
    /\ calls[c2].op \in UnloadOps
    /\ calls[c2].pred = c1
    /\ calls[c2].pc = "fin"
    /\ calls[c2].ran = Backends
    /\ Tracked = <<None, None>>

\* C39: an acquire is never made by a step of a critical section; the
\* fallback prepareOllama is submitted only once the failed prepareLMStudio
\* has settled, its lock released; and whenever the lock is held, the task
\* holding it has a step to take or is about to release the lock
NoSelfDeadlock ==
  /\ [][\A c \in CallIds :
          (calls[c].pc = "idle" /\ calls'[c].pc # "idle")
            => /\ calls'[c].pc = "queued"
               /\ \A d \in CallIds \ {c} : calls'[d] = calls[d]
               /\ locked' = locked]_vars
  /\ [](session.fallback # 0
          => /\ calls[session.call].op = "prepareLMStudio"
             /\ calls[session.call].pc = "done"
             /\ calls[session.call].result \in Failures
             /\ calls[session.fallback].pred = session.call \/ calls[session.fallback].pred \in Others)
  /\ [](locked => \E c \in CallIds : Executing(c) /\ ENABLED (Step(c) \/ Release(c)))

C39Witness ==
  /\ session.pc = "fallbackPrepare"
  /\ locked
  /\ calls[session.fallback].pc = "uList"
  /\ calls[session.call].pc = "done"
  /\ calls[session.call].result = BackendUnavailable
====
